---- MODULE Spec2Model ----
(***************************************************************************)
(* uvicorn-gunicorn-readyapi: the demo HTTP application                    *)
(* (docker-images/app/main.py) and the container smoke tests               *)
(* (tests/test_02_security/test_security.py).                              *)
(*                                                                         *)
(* Two state machines share the module.  AppSpec runs the application:     *)
(* requests are received, a route handler runs, a raised exception is      *)
(* dispatched to the registered exception handler, the response is sent.   *)
(* HarnessSpec runs the four smoke tests in file order against the         *)
(* container engine.  Each specification leaves the other's variables at   *)
(* their initial values.                                                   *)
(***************************************************************************)
EXTENDS Integers, Sequences, FiniteSets, TLC

VARIABLES
    version_info,   \* sys.version_info, as [major, minor]
    version,        \* main.py module global `version`
    reqs,           \* requests in flight, one record per connection slot
    cur,            \* index of the running smoke test (Len(TestOrder)+1: suite over)
    pc,             \* position inside the running smoke test
    container,      \* what the engine holds under CONTAINER_NAME
    image,          \* what the container started from the image reports
    frame,          \* local variables of the running smoke test
    pending,        \* exception propagating out of the try block ("none" if none)
    trace,          \* engine calls and probes of the running smoke test, in order
    verdict         \* outcome of each smoke test

appVars == <<version_info, version, reqs>>
harnessVars == <<cur, pc, container, image, frame, pending, trace, verdict>>
vars == <<version_info, version, reqs, cur, pc, container, image, frame, pending, trace, verdict>>

(***************************************************************************)
(* Python helpers                                                          *)
(***************************************************************************)

\* dict.get(key, default) on a dict modelled as a function.
Get(d, k, default) == IF k \in DOMAIN d THEN d[k] ELSE default

\* The empty dict.
EmptyDict == [k \in {} |-> ""]

\* Truth value of a dict (`if health:`): a dict is true iff it is not empty.
Truthy(d) == DOMAIN d # {}

\* `needle in hay` for two str.
Contains(hay, needle) ==
    \E i \in 1..(Len(hay) - Len(needle) + 1) :
        SubSeq(hay, i, i + Len(needle) - 1) = needle

(***************************************************************************)
(* The application: docker-images/app/main.py                              *)
(***************************************************************************)

\* Bound: number of connection slots handled concurrently.
MaxReq == 2

Slots == 1..MaxReq

\* Interpreter versions the image variants are built for.
PyVersions == {[major |-> 3, minor |-> 9], [major |-> 3, minor |-> 11]}

\* f"{sys.version_info.major}.{sys.version_info.minor}"
FormatVersion(vi) == ToString(vi.major) \o "." \o ToString(vi.minor)

Paths == {"/", "/health", "/info"}

\* Exception classes and their base class (Python's class hierarchy).
Base(cls) == IF cls = "Exception" THEN "object" ELSE "Exception"

\* isinstance(exc, cls)
IsInstance(exc, cls) == exc.cls = cls \/ (exc.cls # "none" /\ Base(exc.cls) = cls)

NoExc == [cls |-> "none", status_code |-> 0, detail |-> "", msg |-> ""]

\* HTTPException(status_code=c, detail=d); its str() is "<code>: <detail>".
HTTPException(c, d) ==
    [cls |-> "HTTPException", status_code |-> c, detail |-> d,
     msg |-> ToString(c) \o ": " \o d]

\* Any other exception, with its str(exc).
OtherException(cls, m) == [cls |-> cls, status_code |-> 0, detail |-> "", msg |-> m]

\* What may go wrong while a handler body runs: nothing, an exception that is
\* not an HTTPException, or an HTTPException.
Faults ==
    {NoExc,
     OtherException("ValueError", "division by zero"),
     OtherException("ValueError", "connection to db at 10.0.0.5 refused"),
     OtherException("RuntimeError", "division by zero"),
     HTTPException(404, "Not found"),
     HTTPException(418, "Not found"),
     HTTPException(500, "Internal server error"),
     HTTPException(500, "disk /dev/sda1 full")}

\* JSONResponse(status_code=..., content=...)
JSONResponse(code, body) == [status_code |-> code, content |-> body]

NoResponse == [status_code |-> 0, content |-> EmptyDict]

\* logger.<level>(msg)
LogRecord(level, m) == [level |-> level, msg |-> m]

\* A handler's result: it returns a value or raises, and may have logged.
Return(value, logs) == [kind |-> "return", value |-> value, exc |-> NoExc, logs |-> logs]

Raise(exc, logs) == [kind |-> "raise", value |-> EmptyDict, exc |-> exc, logs |-> logs]

http_exception_handler(path, exc) ==
    [response |-> JSONResponse(exc.status_code,
                               [error |-> exc.detail, status_code |-> exc.status_code]),
     logs |-> <<LogRecord("WARNING",
                  "HTTP " \o ToString(exc.status_code) \o ": " \o exc.detail
                  \o " - Path: " \o path)>>]

\* Faulty variant of general_exception_handler: the body carries str(exc).
general_exception_handler_leaking(path, exc) ==
    [response |-> JSONResponse(500, [error |-> exc.msg, status_code |-> 500]),
     logs |-> <<LogRecord("ERROR",
                  "Unexpected error: " \o exc.msg \o " - Path: " \o path)>>]

general_exception_handler(path, exc) ==
    [response |-> JSONResponse(500,
                               [error |-> "Internal server error", status_code |-> 500]),
     logs |-> <<LogRecord("ERROR",
                  "Unexpected error: " \o exc.msg \o " - Path: " \o path)>>]

\* The try block of read_root; `fault` is what goes wrong inside it, if anything.
read_root_try(ver, fault) ==
    IF fault = NoExc
    THEN Return([message |-> "Hello world! From ReadyAPI running on Uvicorn with Gunicorn. Using Python " \o ver,
                 python_version |-> ver,
                 status |-> "healthy"],
                <<LogRecord("INFO", "Root endpoint accessed successfully")>>)
    ELSE Raise(fault, <<>>)

read_root(ver, fault) ==
    LET r == read_root_try(ver, fault) IN
    IF r.kind = "raise" /\ IsInstance(r.exc, "Exception")
    THEN Raise(HTTPException(500, "Internal server error"),
               r.logs \o <<LogRecord("ERROR", "Error in root endpoint: " \o r.exc.msg)>>)
    ELSE r

\* Faulty variant of health_check: the answer depends on the other requests.
health_check_busy(ver, fault) ==
    IF fault = NoExc
    THEN Return([status |-> IF \E q \in Slots : reqs[q].pc = "responded"
                            THEN "busy" ELSE "healthy",
                 service |-> "uvicorn-gunicorn-readyapi"], <<>>)
    ELSE Raise(fault, <<>>)

health_check(ver, fault) ==
    IF fault = NoExc
    THEN Return([status |-> "healthy", service |-> "uvicorn-gunicorn-readyapi"], <<>>)
    ELSE Raise(fault, <<>>)

\* Faulty variant of get_info: python_version is formatted differently from
\* the module's `version`.
get_info_own_version(ver, fault) ==
    IF fault = NoExc
    THEN Return([python_version |-> ver \o ".0",
                 framework |-> "ReadyAPI",
                 server |-> "Uvicorn with Gunicorn",
                 docs_url |-> "/docs",
                 redoc_url |-> "/redoc"], <<>>)
    ELSE Raise(fault, <<>>)

get_info(ver, fault) ==
    IF fault = NoExc
    THEN Return([python_version |-> ver,
                 framework |-> "ReadyAPI",
                 server |-> "Uvicorn with Gunicorn",
                 docs_url |-> "/docs",
                 redoc_url |-> "/redoc"], <<>>)
    ELSE Raise(fault, <<>>)

\* @app.get(path): the handler registered for a path.
Route(path, ver, fault) ==
    CASE path = "/"       -> read_root(ver, fault)
      [] path = "/health" -> health_check(ver, fault)
      [] path = "/info"   -> get_info(ver, fault)

\* Faulty variant of ExceptionHandler: the handler for Exception takes every
\* exception, HTTPException included.
ExceptionHandler_general_only(path, exc) == general_exception_handler(path, exc)

\* @app.exception_handler(cls): the handler of the nearest registered class.
ExceptionHandler(path, exc) ==
    IF IsInstance(exc, "HTTPException")
    THEN http_exception_handler(path, exc)
    ELSE general_exception_handler(path, exc)

IdleReq ==
    [pc |-> "idle", path |-> "", fault |-> NoExc, exc |-> NoExc,
     response |-> NoResponse, logs |-> <<>>]

\* A connection delivers GET path and the router selects the route.
Receive(r) ==
    /\ reqs[r].pc = "idle"
    /\ \E p \in Paths :
        reqs' = [reqs EXCEPT ![r] = [IdleReq EXCEPT !.pc = "routed", !.path = p]]
    /\ UNCHANGED <<version_info, version, harnessVars>>

\* The route handler runs to its return or raise; `f` is what goes wrong in it.
Handle(r) ==
    /\ reqs[r].pc = "routed"
    /\ \E f \in Faults :
        LET res == Route(reqs[r].path, version, f) IN
        reqs' = [reqs EXCEPT ![r] =
                    IF res.kind = "return"
                    THEN [@ EXCEPT !.pc = "responded",
                                   !.fault = f,
                                   !.response = JSONResponse(200, res.value),
                                   !.logs = @ \o res.logs]
                    ELSE [@ EXCEPT !.pc = "raised",
                                   !.fault = f,
                                   !.exc = res.exc,
                                   !.logs = @ \o res.logs]]
    /\ UNCHANGED <<version_info, version, harnessVars>>

\* The raised exception reaches the registered exception handler.
HandleException(r) ==
    /\ reqs[r].pc = "raised"
    /\ LET h == ExceptionHandler(reqs[r].path, reqs[r].exc) IN
        reqs' = [reqs EXCEPT ![r] =
                    [@ EXCEPT !.pc = "responded",
                              !.response = h.response,
                              !.logs = @ \o h.logs]]
    /\ UNCHANGED <<version_info, version, harnessVars>>

\* The response is written to the connection; the slot is free again.
Send(r) ==
    /\ reqs[r].pc = "responded"
    /\ reqs' = [reqs EXCEPT ![r] = IdleReq]
    /\ UNCHANGED <<version_info, version, harnessVars>>


AppNext == \E r \in Slots : Receive(r) \/ Handle(r) \/ HandleException(r) \/ Send(r)

(***************************************************************************)
(* Python str and bytes, as the smoke tests use them                       *)
(***************************************************************************)

\* The printable ASCII characters of code points 32..95 and 97..126, in order
\* (the grave accent, 96, cannot be written in a string here and is left out).
Printable32 == " !\"#$%&'()*+,-./0123456789:;<=>?@ABCDEFGHIJKLMNOPQRSTUVWXYZ[\\]^_"

Printable97 == "abcdefghijklmnopqrstuvwxyz{|}~"

\* chr(b) for an ASCII byte.
Chr(b) ==
    CASE b = 9  -> "\t"
      [] b = 10 -> "\n"
      [] b = 13 -> "\r"
      [] b >= 32 /\ b <= 95 -> SubSeq(Printable32, b - 31, b - 31)
      [] b >= 97 /\ b <= 126 -> SubSeq(Printable97, b - 96, b - 96)

\* ord(c) for an ASCII character.
Ord(c) == CHOOSE b \in {9, 10, 13} \cup (32..95) \cup (97..126) : Chr(b) = c

\* str.encode(): the bytes the container writes for a text.
Encode(s) == [i \in 1..Len(s) |-> Ord(SubSeq(s, i, i))]

\* bytes.decode() succeeds on ASCII bytes; a byte that starts no UTF-8
\* sequence raises UnicodeDecodeError.
Decodable(bytes) == \A i \in 1..Len(bytes) : bytes[i] < 128

\* The text of decodable bytes: the characters of the bytes, joined.
RECURSIVE Decode(_)
Decode(bytes) ==
    IF Len(bytes) = 0 THEN ""
    ELSE IF Len(bytes) = 1 THEN Chr(bytes[1])
    ELSE LET h == Len(bytes) \div 2 IN
         Decode(SubSeq(bytes, 1, h)) \o Decode(SubSeq(bytes, h + 1, Len(bytes)))

Whitespace == {" ", "\t", "\n", "\r"}

RECURSIVE LStrip(_)
LStrip(s) ==
    IF Len(s) > 0 /\ SubSeq(s, 1, 1) \in Whitespace
    THEN LStrip(SubSeq(s, 2, Len(s)))
    ELSE s

RECURSIVE RStrip(_)
RStrip(s) ==
    IF Len(s) > 0 /\ SubSeq(s, Len(s), Len(s)) \in Whitespace
    THEN RStrip(SubSeq(s, 1, Len(s) - 1))
    ELSE s

\* Faulty variant of Strip: only leading whitespace is removed.
Strip_leading(s) == LStrip(s)

\* str.strip()
Strip(s) == RStrip(LStrip(s))

(***************************************************************************)
(* The smoke tests: tests/test_02_security/test_security.py                *)
(***************************************************************************)

\* The tests of the file, in the order the file defines (and pytest runs) them.
TestOrder ==
    <<"test_non_root_user", "test_health_check", "test_file_permissions",
      "test_container_labels">>

Tests == DOMAIN TestOrder

\* The running test is the one named `name`.
Running(name) == cur \in Tests /\ TestOrder[cur] = name

NoContainer == [state |-> "none", owner |-> 0]

\* Local variables of a test before the try block has assigned any.
InitFrame ==
    [user_id |-> "", username |-> "", health |-> EmptyDict, status |-> "",
     status_code |-> 0, output |-> "", exit_code |-> -1, labels |-> EmptyDict]

\* What the container has answered so far: nothing.
InitImage ==
    [id_u |-> <<>>, whoami |-> <<>>, attrs |-> EmptyDict, http_status |-> 0,
     listing |-> <<>>, readable |-> FALSE, labels |-> EmptyDict]

\* The first statement of each test's try block.
FirstProbe(name) ==
    CASE name = "test_non_root_user"    -> "exec_id"
      [] name = "test_health_check"     -> "reload"
      [] name = "test_file_permissions" -> "exec_ls"
      [] name = "test_container_labels" -> "labels"

\* remove_previous_container(client): whatever the engine still holds under
\* CONTAINER_NAME is stopped and removed, so the name is free for this test.
remove_previous_container ==
    /\ cur \in Tests
    /\ pc = "start"
    /\ container' = NoContainer
    /\ frame' = InitFrame
    /\ image' = InitImage
    /\ trace' = <<>>
    /\ pending' = "none"
    /\ pc' = "run"
    /\ UNCHANGED <<cur, verdict, appVars>>

\* client.containers.run(image, name=CONTAINER_NAME, ..., detach=True): the
\* engine refuses a name that is in use, and the error leaves the test at once.
containers_run ==
    /\ cur \in Tests
    /\ pc = "run"
    /\ IF container.state = "none"
       THEN /\ container' = [state |-> "running", owner |-> cur]
            /\ trace' = Append(trace, "run")
            /\ pc' = "sleep"
            /\ UNCHANGED pending
       ELSE /\ pending' = "APIError"
            /\ pc' = "end"
            /\ UNCHANGED <<container, trace>>
    /\ UNCHANGED <<cur, frame, image, verdict, appVars>>

\* time.sleep(3) / time.sleep(5)
sleep ==
    /\ cur \in Tests
    /\ pc = "sleep"
    /\ trace' = Append(trace, "sleep")
    /\ pc' = FirstProbe(TestOrder[cur])
    /\ UNCHANGED <<cur, container, frame, image, pending, verdict, appVars>>

\* Faulty variant of Finally: the cleanup follows the assertions instead of
\* standing in a finally block, so an exception skips it.
Finally_unguarded(e) ==
    /\ pending' = e
    /\ pc' = IF e = "none" THEN "stop" ELSE "end"

\* Leaving the try block, normally (e = "none") or by exception e: control
\* passes to the finally block.
Finally(e) ==
    /\ pending' = e
    /\ pc' = "stop"

\* Faulty variant of container_stop: the finally block only removes.
container_stop_missing ==
    /\ cur \in Tests
    /\ pc = "stop"
    /\ pc' = "remove"
    /\ UNCHANGED <<cur, container, trace, frame, image, pending, verdict, appVars>>

\* container.stop(), first statement of the finally block
container_stop ==
    /\ cur \in Tests
    /\ pc = "stop"
    /\ container' = [container EXCEPT !.state = "exited"]
    /\ trace' = Append(trace, "stop")
    /\ pc' = "remove"
    /\ UNCHANGED <<cur, frame, image, pending, verdict, appVars>>

\* container.remove(), second statement of the finally block
container_remove ==
    /\ cur \in Tests
    /\ pc = "remove"
    /\ container' = NoContainer
    /\ trace' = Append(trace, "remove")
    /\ pc' = "end"
    /\ UNCHANGED <<cur, frame, image, pending, verdict, appVars>>

\* The test function returns or the pending exception leaves it; the runner
\* records the outcome and moves to the next test.
EndTest ==
    /\ cur \in Tests
    /\ pc = "end"
    /\ verdict' = [verdict EXCEPT ![cur] = IF pending = "none" THEN "passed" ELSE "failed"]
    /\ cur' = cur + 1
    /\ pc' = "start"
    /\ UNCHANGED <<container, frame, image, pending, trace, appVars>>

\* Outputs `id -u` may give: root, a regular user, with and without the final
\* newline, and bytes that are not text.
IdOutputs == {Encode("0\n"), Encode("0"), Encode("1000\n"), Encode(" 0\n"), <<255, 10>>}

WhoamiOutputs == {Encode("appuser\n"), Encode("appuser"), Encode("root\n"), <<255, 10>>}

\* test_non_root_user: result = container.exec_run("id -u"); decode, strip, assert
exec_id_u ==
    /\ Running("test_non_root_user")
    /\ pc = "exec_id"
    /\ trace' = Append(trace, "exec id -u")
    /\ \/ /\ Finally("APIError")
          /\ UNCHANGED <<frame, image>>
       \/ \E out \in IdOutputs :
            /\ image' = [image EXCEPT !.id_u = out]
            /\ IF ~Decodable(out)
               THEN Finally("UnicodeDecodeError") /\ UNCHANGED frame
               ELSE LET user_id == Strip(Decode(out)) IN
                    /\ frame' = [frame EXCEPT !.user_id = user_id]
                    /\ IF user_id # "0"
                       THEN pc' = "exec_whoami" /\ UNCHANGED pending
                       ELSE Finally("AssertionError")
    /\ UNCHANGED <<cur, container, verdict, appVars>>

\* test_non_root_user: result = container.exec_run("whoami"); decode, strip, assert
exec_whoami ==
    /\ Running("test_non_root_user")
    /\ pc = "exec_whoami"
    /\ trace' = Append(trace, "exec whoami")
    /\ \/ /\ Finally("APIError")
          /\ UNCHANGED <<frame, image>>
       \/ \E out \in WhoamiOutputs :
            /\ image' = [image EXCEPT !.whoami = out]
            /\ IF ~Decodable(out)
               THEN Finally("UnicodeDecodeError") /\ UNCHANGED frame
               ELSE LET username == Strip(Decode(out)) IN
                    /\ frame' = [frame EXCEPT !.username = username]
                    /\ IF username = "appuser"
                       THEN Finally("none")
                       ELSE Finally("AssertionError")
    /\ UNCHANGED <<cur, container, verdict, appVars>>

\* State of a container without HEALTHCHECK, with an empty Health object, with
\* each health status the engine reports, and with a Health object that has no
\* Status; and attributes that carry no State at all.
AttrsSet ==
    {[Id |-> "c0ffee"],
     [State |-> [Status |-> "running"]],
     [State |-> [Status |-> "running", Health |-> EmptyDict]],
     [State |-> [Status |-> "running", Health |-> [FailingStreak |-> "0"]]]}
    \cup {[State |-> [Status |-> "running", Health |-> [Status |-> h]]] :
            h \in {"healthy", "starting", "unhealthy", "none"}}

\* Status codes the root endpoint may answer with.
HttpStatuses == {200, 404, 500}

\* test_health_check: container.reload(); health = ...; if health: assert status
reload ==
    /\ Running("test_health_check")
    /\ pc = "reload"
    /\ trace' = Append(trace, "reload")
    /\ \/ /\ Finally("APIError")
          /\ UNCHANGED <<frame, image>>
       \/ \E a \in AttrsSet :
            LET health == Get(Get(a, "State", EmptyDict), "Health", EmptyDict)
                status == Get(health, "Status", "unknown")
            IN
            /\ image' = [image EXCEPT !.attrs = a]
            /\ IF Truthy(health)
               THEN /\ frame' = [frame EXCEPT !.health = health, !.status = status]
                    /\ IF status \in {"healthy", "starting"}
                       THEN pc' = "http" /\ UNCHANGED pending
                       ELSE Finally("AssertionError")
               ELSE /\ frame' = [frame EXCEPT !.health = health]
                    /\ pc' = "http"
                    /\ UNCHANGED pending
    /\ UNCHANGED <<cur, container, verdict, appVars>>

\* Faulty variant of ResponseOk: any answer below 500 counts.
ResponseOk_below_500(code) == code < 500

\* assert response.status_code == 200
ResponseOk(code) == code = 200

\* test_health_check: response = requests.get("http://127.0.0.1:8000", timeout=10)
requests_get ==
    /\ Running("test_health_check")
    /\ pc = "http"
    /\ trace' = Append(trace, "requests.get")
    /\ \/ /\ Finally("RequestException")
          /\ UNCHANGED <<frame, image>>
       \/ \E code \in HttpStatuses :
            /\ image' = [image EXCEPT !.http_status = code]
            /\ frame' = [frame EXCEPT !.status_code = code]
            /\ IF ResponseOk(code) THEN Finally("none") ELSE Finally("AssertionError")
    /\ UNCHANGED <<cur, container, verdict, appVars>>

\* One line of `ls -la`: the mode string, the size and the name of an entry.
Entry(mode, size, name) == [mode |-> mode, size |-> size, name |-> name]

\* The text `ls -la` prints for one entry.
RenderEntry(e) == e.mode \o " 1 root root " \o e.size \o " Jan  1 00:00 " \o e.name \o "\n"

RECURSIVE RenderEntries(_)
RenderEntries(l) == IF l = <<>> THEN "" ELSE RenderEntry(Head(l)) \o RenderEntries(Tail(l))

\* The output of `ls -la /app` for a directory listing.
LsOutput(l) == Encode("total 12\n" \o RenderEntries(l))

\* Directory contents of /app: safe and world-writable modes, and sizes and
\* names with and without the digits 777.
Listings ==
    {<<Entry("drwxr-xr-x", "4096", "."), Entry("drwxr-xr-x", "4096", ".."), m>> :
        m \in {Entry("-rw-r--r--", "2941", "main.py"),
               Entry("-rwxrwxrwx", "2941", "main.py"),
               Entry("-rw-rw-rw-", "2941", "main.py"),
               Entry("-rw-r--r--", "1777", "main.py"),
               Entry("-rwxrwxrwx", "777", "main.py")}}
    \cup {<<Entry("drwxrwxrwx", "4096", "."), Entry("drwxr-xr-x", "4096", ".."),
            Entry("-rw-r--r--", "2941", "main.py")>>}

\* test_file_permissions: result = container.exec_run("ls -la /app"); assert
exec_ls ==
    /\ Running("test_file_permissions")
    /\ pc = "exec_ls"
    /\ trace' = Append(trace, "exec ls -la /app")
    /\ \/ /\ Finally("APIError")
          /\ UNCHANGED <<frame, image>>
       \/ \E l \in Listings :
            LET output == Decode(LsOutput(l)) IN
            /\ image' = [image EXCEPT !.listing = l]
            /\ frame' = [frame EXCEPT !.output = output]
            /\ IF ~Contains(output, "777")
               THEN pc' = "exec_test" /\ UNCHANGED pending
               ELSE Finally("AssertionError")
    /\ UNCHANGED <<cur, container, verdict, appVars>>

\* Exit code of `test -r /app/main.py || test -r /app/app/main.py`.
TestReadable(main, app_main) == IF main \/ app_main THEN 0 ELSE 1

\* test_file_permissions: result = container.exec_run("test -r ... || test -r ..."); assert
exec_test ==
    /\ Running("test_file_permissions")
    /\ pc = "exec_test"
    /\ trace' = Append(trace, "exec test -r")
    /\ \/ /\ Finally("APIError")
          /\ UNCHANGED <<frame, image>>
       \/ \E main \in BOOLEAN, app_main \in BOOLEAN :
            LET exit_code == TestReadable(main, app_main) IN
            /\ image' = [image EXCEPT !.readable = main \/ app_main]
            /\ frame' = [frame EXCEPT !.exit_code = exit_code]
            /\ IF exit_code = 0 THEN Finally("none") ELSE Finally("AssertionError")
    /\ UNCHANGED <<cur, container, verdict, appVars>>

LabelKeys ==
    {"org.opencontainers.image.title", "org.opencontainers.image.description",
     "org.opencontainers.image.vendor"}

LabelValues == {"", "uvicorn-gunicorn-readyapi", "KhulnaSoft", "khulnasoft"}

\* Label sets an image may carry: any of the three labels, with any value.
LabelSets == UNION {[K -> LabelValues] : K \in SUBSET LabelKeys}

\* Faulty variant of LabelsAccepted: the vendor is only required to be there.
LabelsAccepted_any_vendor(labels) ==
    /\ "org.opencontainers.image.title" \in DOMAIN labels
    /\ "org.opencontainers.image.description" \in DOMAIN labels
    /\ "org.opencontainers.image.vendor" \in DOMAIN labels

\* The four assertions of test_container_labels.
LabelsAccepted(labels) ==
    /\ "org.opencontainers.image.title" \in DOMAIN labels
    /\ "org.opencontainers.image.description" \in DOMAIN labels
    /\ "org.opencontainers.image.vendor" \in DOMAIN labels
    /\ labels["org.opencontainers.image.vendor"] = "KhulnaSoft"

\* test_container_labels: labels = container.labels; the assertions
read_labels ==
    /\ Running("test_container_labels")
    /\ pc = "labels"
    /\ trace' = Append(trace, "labels")
    /\ \E l \in LabelSets :
        /\ image' = [image EXCEPT !.labels = l]
        /\ frame' = [frame EXCEPT !.labels = l]
        /\ IF LabelsAccepted(l) THEN Finally("none") ELSE Finally("AssertionError")
    /\ UNCHANGED <<cur, container, verdict, appVars>>

\* The runner is about to start the first test.
HarnessIdle ==
    /\ cur = 1
    /\ pc = "start"
    /\ image = InitImage
    /\ frame = InitFrame
    /\ pending = "none"
    /\ trace = <<>>
    /\ verdict = [t \in Tests |-> "pending"]

\* What is left under CONTAINER_NAME when the suite starts: nothing, or a
\* container of an earlier run (owner 0), running or exited.
HarnessInit ==
    /\ HarnessIdle
    /\ container \in {NoContainer, [state |-> "running", owner |-> 0],
                      [state |-> "exited", owner |-> 0]}
    /\ version_info = [major |-> 3, minor |-> 11]
    /\ version = FormatVersion(version_info)
    /\ reqs = [r \in Slots |-> IdleReq]

HarnessNext ==
    \/ remove_previous_container
    \/ containers_run
    \/ sleep
    \/ exec_id_u
    \/ exec_whoami
    \/ reload
    \/ requests_get
    \/ exec_ls
    \/ exec_test
    \/ read_labels
    \/ container_stop
    \/ container_remove
    \/ EndTest

\* The module is imported (version is computed once) and no request is in
\* flight; no smoke test runs.
AppInit ==
    /\ version_info \in PyVersions
    /\ version = FormatVersion(version_info)
    /\ reqs = [r \in Slots |-> IdleReq]
    /\ HarnessIdle
    /\ container = NoContainer

\* The application serving requests.
AppSpec == AppInit /\ [][AppNext]_vars

\* The test runner executing the suite.
HarnessSpec == HarnessInit /\ [][HarnessNext]_vars

\* The runner does not stall: every engine call and probe returns or raises
\* (the HTTP probe has a timeout), so an enabled step is eventually taken.
HarnessFairSpec == HarnessSpec /\ WF_vars(HarnessNext)

(***************************************************************************)
(* Properties of the application                                           *)
(***************************************************************************)

Responded(r) == reqs[r].pc = "responded"

\* The handler of request r hit an error that is not an HTTPException.
UnexpectedFault(r) == reqs[r].fault.cls \notin {"none", "HTTPException"}

GenericError == JSONResponse(500, [error |-> "Internal server error", status_code |-> 500])

\* C2: whatever the route, an exception that is not an HTTPException ends in
\* status 500 with the one fixed body, the same for every exception message;
\* in read_root the error is already an HTTPException when it leaves the handler.
UnexpectedErrorIsGeneric500 ==
    \A r \in Slots :
        /\ (Responded(r) /\ UnexpectedFault(r)) => reqs[r].response = GenericError
        /\ (reqs[r].pc = "raised" /\ UnexpectedFault(r) /\ reqs[r].path = "/")
              => reqs[r].exc = HTTPException(500, "Internal server error")

\* Two requests, to / and to another route, failed with different internal
\* errors and both have their response.
UnexpectedErrorWitness ==
    \E r, q \in Slots :
        /\ Responded(r) /\ Responded(q)
        /\ UnexpectedFault(r) /\ UnexpectedFault(q)
        /\ reqs[r].path = "/" /\ reqs[q].path # "/"
        /\ reqs[r].fault.msg # reqs[q].fault.msg
        /\ reqs[r].response = reqs[q].response

\* The response the HTTP exception handler gives for code c and detail d.
ErrorResponse(c, d) == JSONResponse(c, [error |-> d, status_code |-> c])

SuccessfulResponses ==
    \A r \in Slots :
        (Responded(r) /\ reqs[r].fault = NoExc) =>
            LET body == reqs[r].response.content IN
            /\ reqs[r].response.status_code = 200
            /\ reqs[r].path = "/" =>
                /\ DOMAIN body = {"message", "python_version", "status"}
                /\ body.status = "healthy"
                /\ body.python_version = FormatVersion(version_info)
                /\ Contains(body.message, body.python_version)
            /\ reqs[r].path = "/health" =>
                body = [status |-> "healthy", service |-> "uvicorn-gunicorn-readyapi"]
            /\ reqs[r].path = "/info" =>
                /\ DOMAIN body = {"python_version", "framework", "server", "docs_url", "redoc_url"}
                /\ \A q \in Slots :
                      (Responded(q) /\ reqs[q].fault = NoExc /\ reqs[q].path = "/")
                          => body.python_version = reqs[q].response.content.python_version

\* / and /info have both been answered without an error.
SuccessfulResponsesWitness ==
    \E r, q \in Slots :
        /\ Responded(r) /\ reqs[r].fault = NoExc /\ reqs[r].path = "/"
        /\ Responded(q) /\ reqs[q].fault = NoExc /\ reqs[q].path = "/info"
        /\ reqs[r].response.status_code = 200

\* Two requests for the same path that met the same fault got the same response.
SameRequestSameResponse ==
    \A r, q \in Slots :
        (Responded(r) /\ Responded(q)
            /\ reqs[r].path = reqs[q].path /\ reqs[r].fault = reqs[q].fault)
            => reqs[r].response = reqs[q].response

\* C10: request handling is stateless: whatever was handled before or is
\* being handled at the same time, the same request gets the same response;
\* no step changes the version, and a step of one request leaves every other
\* request as it is.
StatelessHandling ==
    /\ [](SameRequestSameResponse)
    /\ [][/\ version' = version
          /\ version_info' = version_info
          /\ \A r, q \in Slots : (r # q /\ reqs'[r] # reqs[r]) => reqs'[q] = reqs[q]]_vars

\* The same request was answered twice, the second time while the first
\* response was still there and after other requests had been served.
StatelessWitness ==
    \E r, q \in Slots :
        /\ r # q
        /\ Responded(r) /\ Responded(q)
        /\ reqs[r].path = "/health" /\ reqs[q].path = "/health"
        /\ reqs[r].fault = NoExc /\ reqs[q].fault = NoExc
        /\ reqs[r].response = reqs[q].response

(***************************************************************************)
(* Properties of the smoke tests                                           *)
(***************************************************************************)

Range(f) == {f[i] : i \in DOMAIN f}

Idx(name) == CHOOSE i \in Tests : TestOrder[i] = name

\* Test `name` has just ended: its verdict is recorded, and its locals, the
\* container's answers and its trace are still in place.
Finished(name) == cur = Idx(name) + 1 /\ pc = "start"

Passed(name) == verdict[Idx(name)] = "passed"

Failed(name) == verdict[Idx(name)] = "failed"

\* The container test t started is running.
Started(t) == container = [state |-> "running", owner |-> t]

\* Test t is at its end with its container stopped, then removed.
Released(t) ==
    /\ cur = t /\ pc = "end"
    /\ container = NoContainer
    /\ Len(trace) >= 2
    /\ trace[Len(trace) - 1] = "stop" /\ trace[Len(trace)] = "remove"

Probes ==
    {"exec id -u", "exec whoami", "reload", "requests.get", "exec ls -la /app",
     "exec test -r", "labels"}

ProbePcs == {"exec_id", "exec_whoami", "reload", "http", "exec_ls", "exec_test", "labels"}

\* C5: a test creates one container, then waits, then probes, then stops,
\* then removes: run is the first call and the only run, the delay the second,
\* every probe comes after both and before stop, remove directly follows
\* stop; a test probes only the running container it created, and no
\* container of a previous test is there when a test starts.
LifecycleOrder ==
    /\ \A i \in DOMAIN trace :
        /\ trace[i] = "run" <=> i = 1
        /\ trace[i] = "sleep" <=> i = 2
        /\ trace[i] \in Probes => (i > 2 /\ \A j \in 1..i : trace[j] \notin {"stop", "remove"})
        /\ trace[i] = "stop" => (i > 3 /\ trace[i - 1] \in Probes)
        /\ trace[i] = "remove" => (i > 1 /\ trace[i - 1] = "stop")
    /\ pc \in ProbePcs => (cur \in Tests /\ Started(cur) /\ Len(trace) >= 2)
    /\ pc = "start" => container.owner \notin Tests
    /\ pc = "end" => (Len(trace) >= 2 /\ trace[Len(trace)] = "remove")

\* test_non_root_user has ended after create, delay, two probes, stop, remove.
LifecycleWitness ==
    /\ Finished("test_non_root_user")
    /\ trace = <<"run", "sleep", "exec id -u", "exec whoami", "stop", "remove">>
    /\ container = NoContainer

\* The attributes carry health information: a Health object that is not empty.
ReportsHealth(a) ==
    /\ "State" \in DOMAIN a
    /\ "Health" \in DOMAIN a.State
    /\ a.State.Health # EmptyDict

\* The reported health status is healthy or starting.
HealthAcceptable(a) ==
    /\ "Status" \in DOMAIN a.State.Health
    /\ a.State.Health.Status \in {"healthy", "starting"}

\* C6: test_health_check passes iff the container reports no health
\* information or a status of healthy or starting, and the GET to the root
\* endpoint returned 200; a pass needs the GET also without health
\* information, and another reported status fails without the GET.
HealthCheckVerdict ==
    Finished("test_health_check") =>
        /\ Passed("test_health_check") <=>
              /\ ReportsHealth(image.attrs) => HealthAcceptable(image.attrs)
              /\ "requests.get" \in Range(trace)
              /\ image.http_status = 200
        /\ (ReportsHealth(image.attrs) /\ ~HealthAcceptable(image.attrs))
              => (Failed("test_health_check") /\ "requests.get" \notin Range(trace))

\* The test passed on a container that reports no health information.
HealthCheckWitness ==
    /\ Finished("test_health_check")
    /\ Passed("test_health_check")
    /\ "reload" \in Range(trace)
    /\ ~ReportsHealth(image.attrs)
    /\ image.http_status = 200

\* The text of s without its whitespace characters.
RECURSIVE NonBlank(_)
NonBlank(s) ==
    IF Len(s) = 0 THEN ""
    ELSE (IF SubSeq(s, 1, 1) \in Whitespace THEN "" ELSE SubSeq(s, 1, 1))
         \o NonBlank(SubSeq(s, 2, Len(s)))

\* The command printed exactly the word w (and whitespace around it).
Printed(out, w) == Decodable(out) /\ NonBlank(Decode(out)) = w

\* C7: test_non_root_user passes only if `id -u` did not print 0 and `whoami`
\* printed appuser; when `id -u` prints 0 the test fails and whoami is not run.
NonRootVerdict ==
    Finished("test_non_root_user") =>
        /\ Passed("test_non_root_user") =>
              /\ "exec id -u" \in Range(trace) /\ "exec whoami" \in Range(trace)
              /\ ~Printed(image.id_u, "0")
              /\ Printed(image.whoami, "appuser")
        /\ Printed(image.id_u, "0") =>
              (Failed("test_non_root_user") /\ "exec whoami" \notin Range(trace))

\* The test passed for uid 1000 and user appuser.
NonRootWitness ==
    /\ Finished("test_non_root_user")
    /\ Passed("test_non_root_user")
    /\ Printed(image.id_u, "1000")
    /\ Printed(image.whoami, "appuser")

NonEmptyLabel(labels, k) == k \in DOMAIN labels /\ labels[k] # ""

\* C8 as claimed: test_container_labels passes only if title and description
\* are there and not empty and the vendor is KhulnaSoft.
LabelsNonEmptyVerdict ==
    (Finished("test_container_labels") /\ Passed("test_container_labels")) =>
        /\ NonEmptyLabel(image.labels, "org.opencontainers.image.title")
        /\ NonEmptyLabel(image.labels, "org.opencontainers.image.description")
        /\ Get(image.labels, "org.opencontainers.image.vendor", "") = "KhulnaSoft"

\* The label set has title and description, with any value, and the vendor
\* KhulnaSoft.
RequiredLabels(labels) ==
    /\ "org.opencontainers.image.title" \in DOMAIN labels
    /\ "org.opencontainers.image.description" \in DOMAIN labels
    /\ Get(labels, "org.opencontainers.image.vendor", "") = "KhulnaSoft"

\* C8 as amended: test_container_labels passes only if the labels title and
\* description are present (their values may be empty) and the vendor label
\* equals KhulnaSoft; when title or description is missing or the vendor
\* differs, the test fails.
LabelsPresentVerdict ==
    Finished("test_container_labels") =>
        /\ Passed("test_container_labels") => RequiredLabels(image.labels)
        /\ ~RequiredLabels(image.labels) => Failed("test_container_labels")
        /\ "labels" \in Range(trace)

\* The test passed on an image whose title label is empty.
LabelsPresentWitness ==
    /\ Finished("test_container_labels")
    /\ Passed("test_container_labels")
    /\ Get(image.labels, "org.opencontainers.image.title", "?") = ""

\* The entry can be written by everybody: the write bit for others is set.
WorldWritable(e) == SubSeq(e.mode, 9, 9) = "w"

HasWorldWritable(l) == \E i \in DOMAIN l : WorldWritable(l[i])

\* C9 as claimed: once both probes have answered, test_file_permissions
\* fails for every listing with a world-writable entry, and passes for every
\* listing without one when the main file is readable.
FilePermissionsVerdict ==
    (Finished("test_file_permissions") /\ image.listing # <<>>) =>
        /\ HasWorldWritable(image.listing) => Failed("test_file_permissions")
        /\ (~HasWorldWritable(image.listing) /\ image.readable
              /\ pending \notin {"APIError"})
              => Passed("test_file_permissions")

====
